---- MODULE Spec2Model ----
(***************************************************************************)
(* Model of the "Info" configuration panel                                 *)
(* frontend/src/panels/config/info/ha-config-info.ts (class HaConfigInfo). *)
(*                                                                         *)
(* The panel is a LitElement.  Its state is the two reactive fields        *)
(* _osInfo / _hassioInfo, the hass property, the one-shot timer scheduled  *)
(* by firstUpdated, the two supervisor fetches started by                  *)
(* _loadSupervisorInfo and the position of that async function.  The       *)
(* environment is the host-global window.CUSTOM_UI_LIST (mutated by third  *)
(* party code), the host that owns hass, the network that settles the two  *)
(* fetches, the user, and the clock.  Every action is one task of the      *)
(* single-threaded event loop.                                             *)
(***************************************************************************)
EXTENDS Integers, Sequences, FiniteSets, TLC

(***************************************************************************)
(* Bounds of the model.                                                    *)
(***************************************************************************)
MaxList == 2      \* longest window.CUSTOM_UI_LIST explored
MaxTime == 3000   \* the clock stops advancing here

(***************************************************************************)
(* Program constants.                                                      *)
(***************************************************************************)
TimerDelay == 2000            \* setTimeout(..., 2000)
TickUnit == TimerDelay \div 2  \* granularity of the clock

JS_TYPE == "latest"           \* __BUILD__
JS_VERSION == "20230101"      \* __VERSION__
SHC_VERSION == "0.1.0"        \* __SHC_VERSION__

PAGES ==
  << [name |-> "thanks",  path |-> "/graphs/contributors"],
     [name |-> "feature", path |-> "/blob/master/docs/Support.de.md"],
     [name |-> "bug",     path |-> "/issues"],
     [name |-> "help",    path |-> "/community"],
     [name |-> "license", path |-> "/blob/master/COPYRIGHT.de.md"] >>

(***************************************************************************)
(* Values of the environment.                                              *)
(***************************************************************************)
\* entries third-party code may register in window.CUSTOM_UI_LIST
CustomUiEntries ==
  { [name |-> "card-a", url |-> "https://a.example", version |-> "1"],
    [name |-> "card-b", url |-> "https://b.example", version |-> "2"] }

\* records the two fetches may resolve with
OsInfoValues == {"osA"}
HassioInfoValues == {"supB"}

Unset == "undefined"          \* value of an unassigned @state() field

(***************************************************************************)
(* JavaScript values as far as firstUpdated and render use them.           *)
(***************************************************************************)
JSUndefined == [type |-> "undefined", num |-> 0, items |-> <<>>]

JSNumber(n) == [type |-> "number", num |-> n, items |-> <<>>]

JSArray(s) == [type |-> "array", num |-> 0, items |-> s]

\* x || []  : undefined is falsy, every array (also the empty one) is truthy
OrEmptyArray(x) == IF x.type = "undefined" THEN JSArray(<<>>) ELSE x

\* x.length : the element count of an array; a number has no such property
LengthProp(x) == IF x.type = "array" THEN JSNumber(Len(x.items)) ELSE JSUndefined

\* a !== b
StrictNotEqual(a, b) == a # b

(***************************************************************************)
(* Host context.                                                           *)
(***************************************************************************)
\* the hass objects the host may hand to the panel
HassValues == { [components |-> {}], [components |-> {"hassio"}] }

\* isComponentLoaded(hass, component)
isComponentLoaded(h, component) == component \in h.components

(***************************************************************************)
(* Promises.                                                               *)
(***************************************************************************)
NotIssued == [state |-> "none", value |-> Unset]

Pending == [state |-> "pending", value |-> Unset]

Fulfilled(v) == [state |-> "fulfilled", value |-> v]

Rejected == [state |-> "rejected", value |-> Unset]

\* variant: settles as soon as one input is fulfilled (Promise.race-like)
PromiseAllEager(p1, p2) ==
  IF p1.state = "rejected" \/ p2.state = "rejected"
    THEN [state |-> "rejected", value |-> <<>>]
  ELSE IF p1.state = "fulfilled" \/ p2.state = "fulfilled"
    THEN [state |-> "fulfilled", value |-> <<p1.value, p2.value>>]
  ELSE [state |-> "pending", value |-> <<>>]

\* variant: waits for both and never rejects (Promise.allSettled-like)
PromiseAllSettled(p1, p2) ==
  IF p1.state \in {"fulfilled", "rejected"} /\ p2.state \in {"fulfilled", "rejected"}
    THEN [state |-> "fulfilled", value |-> <<p1.value, p2.value>>]
  ELSE [state |-> "pending", value |-> <<>>]

\* Promise.all([p1, p2]): rejected as soon as one input is rejected,
\* fulfilled with the array of both values once both are fulfilled.
PromiseAll(p1, p2) ==
  IF p1.state = "rejected" \/ p2.state = "rejected"
    THEN [state |-> "rejected", value |-> <<>>]
  ELSE IF p1.state = "fulfilled" /\ p2.state = "fulfilled"
    THEN [state |-> "fulfilled", value |-> <<p1.value, p2.value>>]
  ELSE [state |-> "pending", value |-> <<>>]

(***************************************************************************)
(* Presentation: the template produced by render().                        *)
(***************************************************************************)
NoView ==
  [shown |-> FALSE, version |-> <<>>, pages |-> <<>>,
   customUiShown |-> FALSE, customUi |-> <<>>, disclaimer |-> FALSE]

\* const customUiList = (window as any).CUSTOM_UI_LIST || [];
RenderCustomUiList(global) == OrEmptyArray(global).items

\* <p class="ha-version">Version ${SHC_VERSION}, Copyright ...</p>
VersionLine == <<"Version ", SHC_VERSION, ", Copyright (c) 2022-2023 Andreas Nixdorf">>

\* variant: the entries sorted by name before they are mapped
PageItemsSortedByName ==
  LET order == <<3, 2, 4, 5, 1>>
  IN [i \in 1..Len(PAGES) |->
        [href |-> PAGES[order[i]].path, label |-> PAGES[order[i]].name]]

\* PAGES.map(page => <ha-clickable-list-item href=githubUrl(page.path)> localize(page.name))
PageItems == [i \in 1..Len(PAGES) |-> [href |-> PAGES[i].path, label |-> PAGES[i].name]]

\* variant: the rows are listed newest first
CustomUiRowsReversed(list) ==
  [i \in 1..Len(list) |->
     [href |-> list[Len(list) + 1 - i].url, name |-> list[Len(list) + 1 - i].name,
      version |-> list[Len(list) + 1 - i].version]]

\* customUiList.map(item => <a href=item.url>item.name</a>: item.version)
CustomUiRows(list) ==
  [i \in 1..Len(list) |->
     [href |-> list[i].url, name |-> list[i].name, version |-> list[i].version]]

\* variant: the version line also shows the supervisor record once it is set
RenderViewWithSupervisor(h, os, sup, global) ==
  LET customUiList == RenderCustomUiList(global)
  IN [shown |-> TRUE,
      version |-> IF sup = Unset THEN VersionLine ELSE Append(VersionLine, sup),
      pages |-> PageItems,
      customUiShown |-> (Len(customUiList) # 0),
      customUi |-> IF Len(customUiList) = 0 THEN <<>> ELSE CustomUiRows(customUiList),
      disclaimer |-> TRUE]

\* variant: customUiList = window.CUSTOM_UI_LIST without "|| []": reading
\* .length of an absent list throws and render() produces no template
RenderViewThrowsOnAbsentList(h, os, sup, global) ==
  IF global.type = "undefined"
    THEN NoView
    ELSE [shown |-> TRUE,
          version |-> VersionLine,
          pages |-> PageItems,
          customUiShown |-> (Len(global.items) # 0),
          customUi |-> IF Len(global.items) = 0 THEN <<>> ELSE CustomUiRows(global.items),
          disclaimer |-> TRUE]

RenderView(h, os, sup, global) ==
  LET customUiList == RenderCustomUiList(global)
  IN [shown |-> TRUE,
      version |-> VersionLine,
      pages |-> PageItems,
      customUiShown |-> (Len(customUiList) # 0),
      customUi |-> IF Len(customUiList) = 0 THEN <<>> ELSE CustomUiRows(customUiList),
      disclaimer |-> TRUE]

(***************************************************************************)
(* Legacy extension watcher and supervisor loader: the expressions of      *)
(* firstUpdated and _loadSupervisorInfo.                                   *)
(***************************************************************************)
\* variant: const customUI = 0 (no snapshot of the list is taken)
WatcherBaselineZero(global) == JSNumber(0)

\* variant: const customUI = [...((window as any).CUSTOM_UI_LIST || [])]
\* (the entries are captured, not their count)
WatcherBaselineEntries(global) == OrEmptyArray(global)

\* const customUI = ((window as any).CUSTOM_UI_LIST || []).length;
WatcherBaseline(global) == LengthProp(OrEmptyArray(global))

\* variant: ... .length > customUI (only growth is noticed)
WatcherCheckGrowthOnly(global, baseline) ==
  LengthProp(OrEmptyArray(global)).num > baseline.num

\* variant: ... .length === customUI.length
WatcherCheckStrictEqual(global, baseline) ==
  LengthProp(OrEmptyArray(global)) = LengthProp(baseline)

\* variant: ... .length !== customUI (the two snapshots are compared)
WatcherCheckTwoSnapshots(global, baseline) ==
  StrictNotEqual(LengthProp(OrEmptyArray(global)), baseline)

\* ((window as any).CUSTOM_UI_LIST || []).length !== customUI.length
WatcherCheck(global, baseline) ==
  StrictNotEqual(LengthProp(OrEmptyArray(global)), LengthProp(baseline))

\* variant: the loader is started without the capability check
ShouldLoadSupervisorInfoAlways(h) == TRUE

\* if (isComponentLoaded(this.hass, "hassio")) { this._loadSupervisorInfo(); }
ShouldLoadSupervisorInfo(h) == isComponentLoaded(h, "hassio")

\* variant: this._loadSupervisorInfo().catch(() => {})
RejectionHandledByCatch == TRUE

\* this._loadSupervisorInfo(): the returned promise gets no catch handler
RejectionHandled == FALSE

\* variant: const [hassioInfo, osInfo] = await Promise.all([...])
CommittedOsInfoSwapped(result) == result[2]

\* const [osInfo, hassioInfo] = await Promise.all([...]); this._osInfo = osInfo;
CommittedOsInfo(result) == result[1]

\* this._hassioInfo = hassioInfo;
CommittedHassioInfo(result) == result[2]

(***************************************************************************)
(* State.                                                                  *)
(***************************************************************************)
VARIABLES
  phase,              \* "mounted" | "unmounted": is the element attached
  hass,               \* this.hass
  osInfo,             \* this._osInfo
  hassioInfo,         \* this._hassioInfo
  hasUpdated,         \* LitElement: firstUpdated has run
  updateRequested,    \* LitElement: an update (render) is pending
  view,               \* the result of the last render()
  customUI,           \* the const captured by firstUpdated
  timer,              \* "none" | "pending" | "fired": the setTimeout task
  timerDue,           \* earliest time the timer task may run
  osFetch,            \* promise of fetchHassioHassOsInfo(this.hass)
  hassioFetch,        \* promise of fetchHassioInfo(this.hass)
  loader,             \* position of _loadSupervisorInfo
  unhandledRejection, \* the promise of _loadSupervisorInfo rejected, unobserved
  osFetchCalls,       \* calls of fetchHassioHassOsInfo
  hassioFetchCalls,   \* calls of fetchHassioInfo
  customUiList,       \* window.CUSTOM_UI_LIST
  focused,            \* index of the link entry holding input focus, 0 = none
  now,                \* the clock
  mountedHassio,      \* history: isComponentLoaded(...) as firstUpdated saw it
  check,              \* history: what the timer task saw and did
  settleOrder,        \* history: the fetches in the order they settled
  renderInputs,       \* history: what the last render() read
  blurredByClick      \* history: the last input event was a click that blurred

vars ==
  << phase, hass, osInfo, hassioInfo, hasUpdated, updateRequested, view,
     customUI, timer, timerDue, osFetch, hassioFetch, loader,
     unhandledRejection, osFetchCalls, hassioFetchCalls, customUiList,
     focused, now, mountedHassio, check, settleOrder, renderInputs,
     blurredByClick >>

panelVars ==
  << osInfo, hassioInfo, hasUpdated, updateRequested, view, customUI, timer,
     timerDue, loader, unhandledRejection >>

fetchVars == << osFetch, hassioFetch, osFetchCalls, hassioFetchCalls >>

historyVars == << mountedHassio, check, settleOrder, renderInputs >>

\* check.rows: the rows the first render after the check listed, -1 before it
NotChecked == [done |-> FALSE, len |-> 0, requested |-> FALSE, rows |-> -1]

\* renderInputs.repeat: how the inputs of the last render compare with those
\* of the render before it: "all" the same, only the supervisor "info"
\* different, or "no" (also for the first render)
NoInputs ==
  [hass |-> [components |-> {}], os |-> Unset, sup |-> Unset,
   list |-> JSUndefined, repeat |-> "no"]

RepeatOf(shown, prev, h, os, sup, global) ==
  IF ~shown \/ prev.hass # h \/ prev.list # global THEN "no"
  ELSE IF prev.os = os /\ prev.sup = sup THEN "all"
  ELSE "info"

\* the lists third-party code can have built: every extension registers once
RECURSIVE NoDuplicates(_)
NoDuplicates(list) ==
  \/ Len(list) <= 1
  \/ /\ \A i \in 2..Len(list) : list[i] # list[1]
     /\ NoDuplicates(Tail(list))

CustomUiLists ==
  { list \in UNION { [1..n -> CustomUiEntries] : n \in 0..MaxList } :
      NoDuplicates(list) }

\* the element has been constructed and attached; its first update is pending
Init ==
  /\ phase = "mounted"
  /\ hass \in HassValues
  /\ osInfo = Unset
  /\ hassioInfo = Unset
  /\ hasUpdated = FALSE
  /\ updateRequested = TRUE
  /\ view = NoView
  /\ customUI = JSUndefined
  /\ timer = "none"
  /\ timerDue = 0
  /\ osFetch = NotIssued
  /\ hassioFetch = NotIssued
  /\ loader = "idle"
  /\ unhandledRejection = FALSE
  /\ osFetchCalls = 0
  /\ hassioFetchCalls = 0
  /\ customUiList \in {JSUndefined} \cup { JSArray(list) : list \in CustomUiLists }
  /\ focused = 0
  /\ now = 0
  /\ mountedHassio = FALSE
  /\ check = NotChecked
  /\ settleOrder = <<>>
  /\ renderInputs = NoInputs
  /\ blurredByClick = FALSE

\* The update of a LitElement and the continuation of an async function are
\* microtasks: the event loop runs them before it takes the next task (a
\* timer, a network completion, an input event, third-party or host code),
\* and no time passes before them.  The first update is a microtask of the
\* task that attached the element.
MicrotaskPending ==
  \/ ~hasUpdated
  \/ updateRequested
  \/ loader = "awaiting" /\ PromiseAll(osFetch, hassioFetch).state # "pending"

EventLoopIdle == ~MicrotaskPending

(***************************************************************************)
(* Operations of the panel.                                                *)
(***************************************************************************)
\* variant: window.CUSTOM_UI_LIST = window.CUSTOM_UI_LIST || [] inside render()
renderInitialisesList ==
  /\ updateRequested
  /\ customUiList' = OrEmptyArray(customUiList)
  /\ view' = RenderView(hass, osInfo, hassioInfo, customUiList)
  /\ updateRequested' = FALSE
  /\ check' = IF check.done /\ check.rows = -1
                THEN [check EXCEPT !.rows = Len(view'.customUi)]
                ELSE check
  /\ renderInputs' = [hass |-> hass, os |-> osInfo, sup |-> hassioInfo,
                      list |-> customUiList,
                      repeat |-> RepeatOf(view.shown, renderInputs, hass, osInfo,
                                          hassioInfo, customUiList)]
  /\ UNCHANGED << phase, hass, osInfo, hassioInfo, hasUpdated, customUI, timer,
                  timerDue, loader, unhandledRejection, fetchVars, focused,
                  now, mountedHassio, settleOrder, blurredByClick >>

\* variant: render() starts the loader while the supervisor record is missing
renderLoadsSupervisorInfo ==
  /\ updateRequested
  /\ view' = RenderView(hass, osInfo, hassioInfo, customUiList)
  /\ updateRequested' = FALSE
  /\ check' = IF check.done /\ check.rows = -1
                THEN [check EXCEPT !.rows = Len(view'.customUi)]
                ELSE check
  /\ renderInputs' = [hass |-> hass, os |-> osInfo, sup |-> hassioInfo,
                      list |-> customUiList,
                      repeat |-> RepeatOf(view.shown, renderInputs, hass, osInfo,
                                          hassioInfo, customUiList)]
  /\ IF isComponentLoaded(hass, "hassio") /\ loader = "idle"
       THEN /\ osFetch' = Pending
            /\ osFetchCalls' = osFetchCalls + 1
            /\ hassioFetch' = Pending
            /\ hassioFetchCalls' = hassioFetchCalls + 1
            /\ loader' = "awaiting"
       ELSE UNCHANGED << fetchVars, loader >>
  /\ UNCHANGED << phase, hass, osInfo, hassioInfo, hasUpdated, customUI, timer,
                  timerDue, unhandledRejection, customUiList, focused, now,
                  mountedHassio, settleOrder, blurredByClick >>

\* variant: the version line carries the time of the render
renderWithClock ==
  /\ updateRequested
  /\ view' = [RenderView(hass, osInfo, hassioInfo, customUiList)
                EXCEPT !.version = Append(VersionLine, IF now < TimerDelay THEN "early" ELSE "late")]
  /\ updateRequested' = FALSE
  /\ check' = IF check.done /\ check.rows = -1
                THEN [check EXCEPT !.rows = Len(view'.customUi)]
                ELSE check
  /\ renderInputs' = [hass |-> hass, os |-> osInfo, sup |-> hassioInfo,
                      list |-> customUiList,
                      repeat |-> RepeatOf(view.shown, renderInputs, hass, osInfo,
                                          hassioInfo, customUiList)]
  /\ UNCHANGED << phase, hass, osInfo, hassioInfo, hasUpdated, customUI, timer,
                  timerDue, loader, unhandledRejection, fetchVars,
                  customUiList, focused, now, mountedHassio, settleOrder,
                  blurredByClick >>

\* variant: render() holds the update back until the loader has its answer
renderAwaitsSupervisorInfo ==
  /\ updateRequested
  /\ loader # "awaiting"
  /\ view' = RenderView(hass, osInfo, hassioInfo, customUiList)
  /\ updateRequested' = FALSE
  /\ check' = IF check.done /\ check.rows = -1
                THEN [check EXCEPT !.rows = Len(view'.customUi)]
                ELSE check
  /\ renderInputs' = [hass |-> hass, os |-> osInfo, sup |-> hassioInfo,
                      list |-> customUiList,
                      repeat |-> RepeatOf(view.shown, renderInputs, hass, osInfo,
                                          hassioInfo, customUiList)]
  /\ UNCHANGED << phase, hass, osInfo, hassioInfo, hasUpdated, customUI, timer,
                  timerDue, loader, unhandledRejection, fetchVars,
                  customUiList, focused, now, mountedHassio, settleOrder,
                  blurredByClick >>

\* render(): LitElement runs it in the update task whenever one is pending
render ==
  /\ updateRequested
  /\ view' = RenderView(hass, osInfo, hassioInfo, customUiList)
  /\ updateRequested' = FALSE
  /\ check' = IF check.done /\ check.rows = -1
                THEN [check EXCEPT !.rows = Len(view'.customUi)]
                ELSE check
  /\ renderInputs' = [hass |-> hass, os |-> osInfo, sup |-> hassioInfo,
                      list |-> customUiList,
                      repeat |-> RepeatOf(view.shown, renderInputs, hass, osInfo,
                                          hassioInfo, customUiList)]
  /\ UNCHANGED << phase, hass, osInfo, hassioInfo, hasUpdated, customUI, timer,
                  timerDue, loader, unhandledRejection, fetchVars,
                  customUiList, focused, now, mountedHassio, settleOrder,
                  blurredByClick >>

\* variant: Promise.all([fetchHassioHassOsInfo(..), fetchHassioHassOsInfo(..)])
loadSupervisorInfoStartOsTwice ==
  /\ osFetch' = Pending
  /\ osFetchCalls' = osFetchCalls + 2
  /\ UNCHANGED << hassioFetch, hassioFetchCalls >>
  /\ loader' = "awaiting"

\* _loadSupervisorInfo() up to its await: both fetches are issued
loadSupervisorInfoStart ==
  /\ osFetch' = Pending
  /\ osFetchCalls' = osFetchCalls + 1
  /\ hassioFetch' = Pending
  /\ hassioFetchCalls' = hassioFetchCalls + 1
  /\ loader' = "awaiting"

\* firstUpdated(changedProps): runs once, right after the first render
firstUpdated ==
  /\ view.shown
  /\ ~hasUpdated
  /\ hasUpdated' = TRUE
  /\ customUI' = WatcherBaseline(customUiList)
  /\ timer' = "pending"
  /\ timerDue' = now + TimerDelay
  /\ IF ShouldLoadSupervisorInfo(hass)
       THEN loadSupervisorInfoStart
       ELSE UNCHANGED << fetchVars, loader >>
  /\ mountedHassio' = isComponentLoaded(hass, "hassio")
  /\ UNCHANGED << phase, hass, osInfo, hassioInfo, updateRequested, view,
                  unhandledRejection, customUiList, focused, now, check,
                  settleOrder, renderInputs, blurredByClick >>

\* variant: setInterval instead of setTimeout, the check is armed again
timerCallbackInterval ==
  /\ EventLoopIdle
  /\ timer = "pending"
  /\ now >= timerDue
  /\ timer' = "pending"
  /\ timerDue' = now + TimerDelay
  /\ updateRequested' = (updateRequested \/ WatcherCheck(customUiList, customUI))
  /\ check' = [done |-> TRUE,
               len |-> Len(OrEmptyArray(customUiList).items),
               requested |-> WatcherCheck(customUiList, customUI),
               rows |-> -1]
  /\ UNCHANGED << phase, hass, osInfo, hassioInfo, hasUpdated, view, customUI,
                  loader, unhandledRejection, fetchVars, customUiList,
                  focused, now, mountedHassio, settleOrder, renderInputs,
                  blurredByClick >>

\* variant: the check drops the supervisor records before it asks for a refresh
timerCallbackResetsInfo ==
  /\ EventLoopIdle
  /\ timer = "pending"
  /\ now >= timerDue
  /\ timer' = "fired"
  /\ osInfo' = Unset
  /\ hassioInfo' = Unset
  /\ updateRequested' = (updateRequested \/ WatcherCheck(customUiList, customUI))
  /\ check' = [done |-> TRUE,
               len |-> Len(OrEmptyArray(customUiList).items),
               requested |-> WatcherCheck(customUiList, customUI),
               rows |-> -1]
  /\ UNCHANGED << phase, hass, hasUpdated, view, customUI, timerDue, loader,
                  unhandledRejection, fetchVars, customUiList, focused, now,
                  mountedHassio, settleOrder, renderInputs, blurredByClick >>

\* variant: the check is put off while the loader waits for its fetches
timerCallbackWaitsForLoader ==
  /\ EventLoopIdle
  /\ timer = "pending"
  /\ now >= timerDue
  /\ loader # "awaiting"
  /\ timer' = "fired"
  /\ updateRequested' = (updateRequested \/ WatcherCheck(customUiList, customUI))
  /\ check' = [done |-> TRUE,
               len |-> Len(OrEmptyArray(customUiList).items),
               requested |-> WatcherCheck(customUiList, customUI),
               rows |-> -1]
  /\ UNCHANGED << phase, hass, osInfo, hassioInfo, hasUpdated, view, customUI,
                  timerDue, loader, unhandledRejection, fetchVars,
                  customUiList, focused, now, mountedHassio, settleOrder,
                  renderInputs, blurredByClick >>

\* variant: a check that finds the loader still waiting gives up on it
timerCallbackAbandonsLoader ==
  /\ EventLoopIdle
  /\ timer = "pending"
  /\ now >= timerDue
  /\ timer' = "fired"
  /\ loader' = IF loader = "awaiting" THEN "abandoned" ELSE loader
  /\ updateRequested' = (updateRequested \/ WatcherCheck(customUiList, customUI))
  /\ check' = [done |-> TRUE,
               len |-> Len(OrEmptyArray(customUiList).items),
               requested |-> WatcherCheck(customUiList, customUI),
               rows |-> -1]
  /\ UNCHANGED << phase, hass, osInfo, hassioInfo, hasUpdated, view, customUI,
                  timerDue, unhandledRejection, fetchVars,
                  customUiList, focused, now, mountedHassio, settleOrder,
                  renderInputs, blurredByClick >>

\* the arrow function handed to setTimeout
timerCallback ==
  /\ EventLoopIdle
  /\ timer = "pending"
  /\ now >= timerDue
  /\ timer' = "fired"
  /\ updateRequested' = (updateRequested \/ WatcherCheck(customUiList, customUI))
  /\ check' = [done |-> TRUE,
               len |-> Len(OrEmptyArray(customUiList).items),
               requested |-> WatcherCheck(customUiList, customUI),
               rows |-> -1]
  /\ UNCHANGED << phase, hass, osInfo, hassioInfo, hasUpdated, view, customUI,
                  timerDue, loader, unhandledRejection, fetchVars,
                  customUiList, focused, now, mountedHassio, settleOrder,
                  renderInputs, blurredByClick >>

\* variant: the two fields are plain properties, assigning them asks for no update
loadSupervisorInfoResumeWithoutUpdate ==
  /\ loader = "awaiting"
  /\ LET all == PromiseAll(osFetch, hassioFetch)
     IN /\ all.state # "pending"
        /\ IF all.state = "fulfilled"
             THEN /\ hassioInfo' = CommittedHassioInfo(all.value)
                  /\ osInfo' = CommittedOsInfo(all.value)
                  /\ loader' = "done"
                  /\ UNCHANGED << unhandledRejection, updateRequested >>
             ELSE /\ loader' = "rejected"
                  /\ unhandledRejection' = ~RejectionHandled
                  /\ UNCHANGED << osInfo, hassioInfo, updateRequested >>
  /\ UNCHANGED << phase, hass, hasUpdated, view, customUI, timer, timerDue,
                  fetchVars, customUiList, focused, now, historyVars,
                  blurredByClick >>

\* variant: the continuation drops the result when the capability is gone
loadSupervisorInfoResumeIfStillLoaded ==
  /\ loader = "awaiting"
  /\ LET all == PromiseAll(osFetch, hassioFetch)
     IN /\ all.state # "pending"
        /\ IF all.state = "fulfilled"
             THEN /\ loader' = "done"
                  /\ UNCHANGED unhandledRejection
                  /\ IF isComponentLoaded(hass, "hassio")
                       THEN /\ hassioInfo' = CommittedHassioInfo(all.value)
                            /\ osInfo' = CommittedOsInfo(all.value)
                            /\ updateRequested' = TRUE
                       ELSE UNCHANGED << osInfo, hassioInfo, updateRequested >>
             ELSE /\ loader' = "rejected"
                  /\ unhandledRejection' = ~RejectionHandled
                  /\ UNCHANGED << osInfo, hassioInfo, updateRequested >>
  /\ UNCHANGED << phase, hass, hasUpdated, view, customUI, timer, timerDue,
                  fetchVars, customUiList, focused, now, historyVars,
                  blurredByClick >>

\* _loadSupervisorInfo() after its await: Promise.all has settled
loadSupervisorInfoResume ==
  /\ loader = "awaiting"
  /\ LET all == PromiseAll(osFetch, hassioFetch)
     IN /\ all.state # "pending"
        /\ IF all.state = "fulfilled"
             THEN /\ hassioInfo' = CommittedHassioInfo(all.value)
                  /\ osInfo' = CommittedOsInfo(all.value)
                  /\ updateRequested' = TRUE
                  /\ loader' = "done"
                  /\ UNCHANGED unhandledRejection
             ELSE /\ loader' = "rejected"
                  /\ unhandledRejection' = ~RejectionHandled
                  /\ UNCHANGED << osInfo, hassioInfo, updateRequested >>
  /\ UNCHANGED << phase, hass, hasUpdated, view, customUI, timer, timerDue,
                  fetchVars, customUiList, focused, now, historyVars,
                  blurredByClick >>

\* variant: the handler also calls this.requestUpdate()
entryClickedRequestsUpdate ==
  /\ EventLoopIdle
  /\ phase = "mounted"
  /\ view.shown
  /\ \E i \in 1..Len(view.pages) :
       /\ focused' = IF focused = i THEN 0 ELSE focused
       /\ blurredByClick' = (blurredByClick \/ focused = i)
  /\ updateRequested' = TRUE
  /\ UNCHANGED << phase, hass, osInfo, hassioInfo, hasUpdated, view, customUI,
                  timer, timerDue, loader, unhandledRejection, fetchVars,
                  customUiList, now, historyVars >>

\* _entryClicked(ev): ev.currentTarget.blur()
entryClicked ==
  /\ EventLoopIdle
  /\ phase = "mounted"
  /\ view.shown
  /\ \E i \in 1..Len(view.pages) :
       /\ focused' = IF focused = i THEN 0 ELSE focused
       /\ blurredByClick' = (blurredByClick \/ focused = i)
  /\ UNCHANGED << phase, hass, panelVars, fetchVars, customUiList, now,
                  historyVars >>

(***************************************************************************)
(* Environment.                                                            *)
(***************************************************************************)
\* the host detaches the panel; HaConfigInfo defines no disconnectedCallback
Unmount ==
  /\ EventLoopIdle
  /\ phase = "mounted"
  /\ phase' = "unmounted"
  /\ focused' = 0
  /\ blurredByClick' = FALSE
  /\ UNCHANGED << hass, panelVars, fetchVars, customUiList, now, historyVars >>

\* the host assigns a new hass object to the attached panel
SetHass ==
  /\ EventLoopIdle
  /\ phase = "mounted"
  /\ \E h \in HassValues \ {hass} : hass' = h
  /\ updateRequested' = TRUE
  /\ UNCHANGED << phase, osInfo, hassioInfo, hasUpdated, view, customUI, timer,
                  timerDue, loader, unhandledRejection, fetchVars,
                  customUiList, focused, now, historyVars, blurredByClick >>

\* the network settles fetchHassioHassOsInfo
OsFetchSettles ==
  /\ EventLoopIdle
  /\ osFetch.state = "pending"
  /\ \/ \E v \in OsInfoValues : osFetch' = Fulfilled(v)
     \/ osFetch' = Rejected
  /\ settleOrder' = Append(settleOrder, "os")
  /\ UNCHANGED << phase, hass, panelVars, hassioFetch, osFetchCalls,
                  hassioFetchCalls, customUiList, focused, now, mountedHassio,
                  check, renderInputs, blurredByClick >>

\* the network settles fetchHassioInfo
HassioFetchSettles ==
  /\ EventLoopIdle
  /\ hassioFetch.state = "pending"
  /\ \/ \E v \in HassioInfoValues : hassioFetch' = Fulfilled(v)
     \/ hassioFetch' = Rejected
  /\ settleOrder' = Append(settleOrder, "hassio")
  /\ UNCHANGED << phase, hass, panelVars, osFetch, osFetchCalls,
                  hassioFetchCalls, customUiList, focused, now, mountedHassio,
                  check, renderInputs, blurredByClick >>

\* third-party code creates, extends, shrinks or removes window.CUSTOM_UI_LIST
ThirdPartyMutatesList ==
  /\ EventLoopIdle
  /\ \/ /\ customUiList.type = "undefined"
        /\ customUiList' = JSArray(<<>>)
     \/ /\ customUiList.type = "array"
        /\ Len(customUiList.items) < MaxList
        /\ \E e \in CustomUiEntries :
             /\ \A i \in 1..Len(customUiList.items) : customUiList.items[i] # e
             /\ customUiList' = JSArray(Append(customUiList.items, e))
     \/ /\ customUiList.type = "array"
        /\ Len(customUiList.items) > 0
        /\ customUiList' =
             JSArray(SubSeq(customUiList.items, 1, Len(customUiList.items) - 1))
     \/ /\ customUiList.type = "array"
        /\ customUiList' = JSUndefined
  /\ UNCHANGED << phase, hass, panelVars, fetchVars, focused, now, historyVars,
                  blurredByClick >>

\* the entries the user is taken to move the focus to: the first and the last
FocusTargets == {1, Len(PAGES)}

\* the user moves input focus to a link entry
UserFocuses ==
  /\ EventLoopIdle
  /\ phase = "mounted"
  /\ view.shown
  /\ \E i \in FocusTargets \cap (1..Len(view.pages)) : focused' = i
  /\ blurredByClick' = FALSE
  /\ UNCHANGED << phase, hass, panelVars, fetchVars, customUiList, now,
                  historyVars >>

\* time passes
Tick ==
  /\ EventLoopIdle
  /\ now + TickUnit <= MaxTime
  /\ now' = now + TickUnit
  /\ UNCHANGED << phase, hass, panelVars, fetchVars, customUiList, focused,
                  historyVars, blurredByClick >>

Next ==
  \/ render
  \/ firstUpdated
  \/ timerCallback
  \/ loadSupervisorInfoResume
  \/ entryClicked
  \/ Unmount
  \/ SetHass
  \/ OsFetchSettles
  \/ HassioFetchSettles
  \/ ThirdPartyMutatesList
  \/ UserFocuses
  \/ Tick

Spec == Init /\ [][Next]_vars

\* The event loop runs every microtask that is pending (the update of the
\* element, the continuation of the loader), time passes, and a timer that is
\* due gets its turn among the other tasks.  The network, the host, third
\* parties and the user are free to never act.
Fairness ==
  /\ WF_vars(render)
  /\ WF_vars(firstUpdated)
  /\ WF_vars(loadSupervisorInfoResume)
  /\ SF_vars(timerCallback)
  /\ SF_vars(Tick)

FairSpec == Spec /\ Fairness

(***************************************************************************)
(* Properties.                                                             *)
(***************************************************************************)
SupervisorInfoUnset == osInfo = Unset /\ hassioInfo = Unset

NoFetchIssued == osFetchCalls = 0 /\ hassioFetchCalls = 0

\* time elapsed since firstUpdated scheduled the timer
SinceMount == now - (timerDue - TimerDelay)

\* C1: when the supervisor capability is not loaded at mount, both
\* supervisor-info fields stay unset and no fetch is ever issued.
C1_AbsentCapabilityNoFetch ==
  (hasUpdated /\ ~mountedHassio) => (SupervisorInfoUnset /\ NoFetchIssued)

C1_Witness ==
  /\ hasUpdated
  /\ ~mountedHassio
  /\ SinceMount >= 3000
  /\ timer = "fired"

\* C2: the two supervisor-info fields are either both unset or both set, in
\* every state a render can observe, and they change only together, from
\* unset to set.
C2_BothOrNeither ==
  /\ [](osInfo = Unset <=> hassioInfo = Unset)
  /\ [][(osInfo' # osInfo \/ hassioInfo' # hassioInfo)
          => /\ SupervisorInfoUnset
             /\ osInfo' # Unset
             /\ hassioInfo' # Unset]_vars

C2_Witness ==
  /\ osInfo = "osA"
  /\ hassioInfo = "supB"
  /\ view.shown
  /\ ~updateRequested

\* C3: with the capability loaded at mount each of the two fetches is issued
\* exactly once, at mount, and nothing later issues one again.
C3_FetchesIssuedOnce ==
  /\ [](hasUpdated /\ mountedHassio => osFetchCalls = 1 /\ hassioFetchCalls = 1)
  /\ [][hasUpdated => osFetchCalls' = osFetchCalls
                      /\ hassioFetchCalls' = hassioFetchCalls]_vars

C3_Witness ==
  /\ mountedHassio
  /\ osFetchCalls = 1
  /\ hassioFetchCalls = 1
  /\ loader = "done"
  /\ timer = "fired"
  /\ ~updateRequested

\* C4: the fetches settle in either order; nothing is committed before both
\* have resolved, and then osInfo is the OS-info value and hassioInfo the
\* supervisor-info value.
C4_JointCommit ==
  /\ (osFetch.state # "fulfilled" \/ hassioFetch.state # "fulfilled")
       => SupervisorInfoUnset
  /\ loader = "done" => (osInfo = osFetch.value /\ hassioInfo = hassioFetch.value)
  /\ (loader = "done" /\ settleOrder = <<"os", "hassio">>)
       => (osInfo \in OsInfoValues /\ hassioInfo \in HassioInfoValues)
  /\ (loader = "done" /\ settleOrder = <<"hassio", "os">>)
       => (osInfo \in OsInfoValues /\ hassioInfo \in HassioInfoValues)

C4_Witness ==
  /\ loader = "done"
  /\ settleOrder = <<"hassio", "os">>
  /\ osInfo = "osA"
  /\ hassioInfo = "supB"

\* C5: once either fetch has failed, neither supervisor-info field is ever
\* set, whatever the other fetch does.
C5_FailureLeavesUnset ==
  (osFetch.state = "rejected" \/ hassioFetch.state = "rejected")
    => SupervisorInfoUnset

C5_Witness ==
  /\ osFetch.state = "rejected"
  /\ hassioFetch.state = "fulfilled"
  /\ settleOrder = <<"os", "hassio">>
  /\ loader = "rejected"
  /\ SupervisorInfoUnset

\* C6: a fetch failure is not caught and not retried: the loader ends as an
\* unhandled rejection and each fetch function has been called once.
C6_FailureUnhandledNoRetry ==
  /\ ((osFetch.state = "rejected" \/ hassioFetch.state = "rejected")
        /\ EventLoopIdle)
       => (loader = "rejected" /\ unhandledRejection)
  /\ loader = "rejected" => (osFetchCalls = 1 /\ hassioFetchCalls = 1)

C6_Witness ==
  /\ loader = "rejected"
  /\ unhandledRejection
  /\ hassioFetch.state = "rejected"
  /\ timer = "fired"

\* C7: after the panel is unmounted no update happens on it: the timer
\* requests no re-render and fetch results are not committed.
C7_NoUpdateAfterUnmount ==
  [][phase = "unmounted"
       => /\ osInfo' = osInfo
          /\ hassioInfo' = hassioInfo
          /\ (updateRequested' => updateRequested)]_vars

\* C8: list length L at mount and L' # L at the delayed check: the watcher
\* requests a re-render.
C8_ChangedLengthRequestsUpdate ==
  (check.done /\ check.len # customUI.num) => check.requested

C8_Witness ==
  /\ check.done
  /\ customUI.num = 2
  /\ check.len = 1
  /\ check.requested

\* C9: list length L at mount and L' = L at the delayed check: the watcher
\* requests no re-render.
C9_SameLengthNoUpdate ==
  (check.done /\ check.len = customUI.num) => ~check.requested

\* C10: list empty at mount, two entries at the delayed check: a re-render
\* follows that lists the two entries, and every render lists the entries the
\* list holds when it runs.
ViewListsCurrentEntries(v, global) ==
  LET list == OrEmptyArray(global).items
  IN /\ Len(v.customUi) = Len(list)
     /\ \A i \in 1..Len(list) :
          /\ v.customUi[i].name = list[i].name
          /\ v.customUi[i].href = list[i].url
          /\ v.customUi[i].version = list[i].version

C10_LateRegistrationRendered ==
  /\ (check.done /\ customUI.num = 0 /\ check.len = 2)
       ~> (check.requested /\ check.rows = 2)
  /\ [][(updateRequested /\ ~updateRequested')
          => ViewListsCurrentEntries(view', customUiList)]_vars

C10_Witness ==
  /\ check.done
  /\ check.requested
  /\ customUI.num = 0
  /\ check.len = 2
  /\ check.rows = 2
  /\ ~updateRequested
  /\ Len(view.customUi) = 2

\* a step in which render() ran: only render() clears the pending update
RenderStep == updateRequested /\ ~updateRequested'

\* a step in which the timer task ran
CheckStep == timer = "pending" /\ timer' # timer

\* the length of window.CUSTOM_UI_LIST, 0 when the global is absent
ListLength(global) == IF global.type = "array" THEN Len(global.items) ELSE 0

\* C11: one delayed check is scheduled per mount and it runs at most once;
\* after it no further check runs and the watcher asks for no further
\* re-render, whatever happens to the list.
C11_SingleDelayedCheck ==
  /\ [](hasUpdated => timer \in {"pending", "fired"})
  /\ [](check.done <=> timer = "fired")
  /\ [][timer' # timer
          => \/ (timer = "none" /\ timer' = "pending")
             \/ (timer = "pending" /\ timer' = "fired")]_vars
  /\ [][timer = "fired"
          => /\ timer' = "fired"
             /\ check'.len = check.len
             /\ check'.requested = check.requested
             /\ (updateRequested'
                   => updateRequested \/ hass' # hass \/ osInfo' # osInfo)]_vars

C11_Witness ==
  /\ timer = "fired"
  /\ check.done
  /\ check.rows # -1
  /\ ListLength(customUiList) # check.len
  /\ ~updateRequested
  /\ now = MaxTime

\* C12: the supervisor records are unset at mount and, once set, no later
\* event clears or overwrites them.
C12_SupervisorInfoMonotonic ==
  /\ [](~hasUpdated => SupervisorInfoUnset)
  /\ [][(~hasUpdated /\ hasUpdated') => (osInfo' = Unset /\ hassioInfo' = Unset)]_vars
  /\ [][(osInfo # Unset \/ hassioInfo # Unset)
          => (osInfo' = osInfo /\ hassioInfo' = hassioInfo)]_vars

C12_Witness ==
  /\ phase = "mounted"
  /\ osInfo = "osA"
  /\ hassioInfo = "supB"
  /\ timer = "fired"
  /\ check.rows # -1
  /\ blurredByClick
  /\ ListLength(customUiList) # ListLength(renderInputs.list)

\* C13: no operation of the panel writes the host context or the extension
\* list; every change of them is made by the host or by third-party code.
C13_PanelWritesNoHostState ==
  /\ [][(render \/ firstUpdated \/ timerCallback \/ loadSupervisorInfoResume
           \/ entryClicked)
          => (hass' = hass /\ customUiList' = customUiList)]_vars
  /\ [][customUiList' # customUiList
          => (ThirdPartyMutatesList /\ view' = view /\ updateRequested' = updateRequested)]_vars
  /\ [][hass' # hass => SetHass]_vars

C13_Witness ==
  /\ timer = "fired"
  /\ loader = "done"
  /\ check.rows # -1
  /\ blurredByClick
  /\ ~updateRequested
  /\ customUiList.type = "undefined"
  /\ ~isComponentLoaded(hass, "hassio")

\* C14: every render contains exactly the five link entries, in the order
\* thanks, feature, bug, help, license.
C14_FiveLinksInOrder ==
  view.shown
    => /\ Len(view.pages) = 5
       /\ view.pages[1].label = "thanks"
       /\ view.pages[2].label = "feature"
       /\ view.pages[3].label = "bug"
       /\ view.pages[4].label = "help"
       /\ view.pages[5].label = "license"

C14_Witness ==
  /\ view.shown
  /\ renderInputs.os = "osA"
  /\ ~isComponentLoaded(renderInputs.hass, "hassio")
  /\ Len(view.customUi) = 2
  /\ Len(view.pages) = 5

\* C15: a render whose inputs (panel state, host context, extension list) are
\* those of the render before it produces the same view, and the view is
\* fixed by what the render read.
C15_RenderDeterministic ==
  /\ [][(RenderStep /\ view.shown
           /\ renderInputs.hass = hass /\ renderInputs.os = osInfo
           /\ renderInputs.sup = hassioInfo /\ renderInputs.list = customUiList)
          => view' = view]_vars
  /\ [](view.shown
          => /\ view.version = VersionLine
             /\ view.pages = PageItems
             /\ view.disclaimer
             /\ view.customUiShown = (ListLength(renderInputs.list) > 0)
             /\ Len(view.customUi) = ListLength(renderInputs.list)
             /\ \A i \in 1..Len(view.customUi) :
                  /\ view.customUi[i].name = renderInputs.list.items[i].name
                  /\ view.customUi[i].href = renderInputs.list.items[i].url
                  /\ view.customUi[i].version = renderInputs.list.items[i].version)

C15_Witness ==
  /\ view.shown
  /\ renderInputs.repeat = "all"
  /\ ~updateRequested
  /\ Len(view.customUi) = 1

\* C16: the view does not depend on the supervisor records nor on the outcome
\* of the fetches: a render that differs from the one before it only in
\* osInfo / hassioInfo produces the same view, also after a failed fetch.
C16_ViewIgnoresSupervisorInfo ==
  [][(RenderStep /\ view.shown
        /\ renderInputs.hass = hass /\ renderInputs.list = customUiList)
       => view' = view]_vars

C16_Witness ==
  /\ view.shown
  /\ renderInputs.repeat = "info"
  /\ renderInputs.os = "osA"
  /\ renderInputs.sup = "supB"
  /\ ~updateRequested

\* C17: a render has no side effect: it leaves the supervisor records, the
\* timer, the fetches and the extension list as they are.
C17_RenderHasNoSideEffect ==
  [][RenderStep
       => /\ osInfo' = osInfo
          /\ hassioInfo' = hassioInfo
          /\ timer' = timer
          /\ timerDue' = timerDue
          /\ osFetch' = osFetch
          /\ hassioFetch' = hassioFetch
          /\ osFetchCalls' = osFetchCalls
          /\ hassioFetchCalls' = hassioFetchCalls
          /\ loader' = loader
          /\ customUiList' = customUiList
          /\ hass' = hass
          /\ customUI' = customUI]_vars

C17_Witness ==
  /\ hasUpdated
  /\ ~mountedHassio
  /\ isComponentLoaded(renderInputs.hass, "hassio")
  /\ timer = "pending"
  /\ loader = "idle"
  /\ NoFetchIssued
  /\ ~updateRequested

\* C18: a click on a link entry only takes the input focus from the clicked
\* element: the supervisor records, the timer, the fetches and the extension
\* list stay as they are and no re-render is requested.
C18_ClickOnlyBlurs ==
  [][(focused # 0 /\ focused' = 0 /\ phase' = "mounted")
       => /\ osInfo' = osInfo
          /\ hassioInfo' = hassioInfo
          /\ timer' = timer
          /\ timerDue' = timerDue
          /\ osFetch' = osFetch
          /\ hassioFetch' = hassioFetch
          /\ osFetchCalls' = osFetchCalls
          /\ hassioFetchCalls' = hassioFetchCalls
          /\ loader' = loader
          /\ customUiList' = customUiList
          /\ updateRequested' = updateRequested
          /\ view' = view]_vars

C18_Witness ==
  /\ blurredByClick
  /\ focused = 0
  /\ phase = "mounted"
  /\ timer = "pending"
  /\ osFetch.state = "pending"
  /\ ~updateRequested

\* C19 as stated: the delayed check requests a re-render if and only if at
\* least one extension is registered when it runs.
C19_RequestIffAnyRegistered ==
  check.done => (check.requested <=> check.len > 0)

\* C19 as amended: the delayed check requests a re-render whenever at least
\* one extension is registered when it runs.
C19_RequestIfAnyRegistered ==
  (check.done /\ check.len > 0) => check.requested

C19_Witness ==
  /\ check.done
  /\ check.len = 1
  /\ customUI.num = 1
  /\ check.requested

\* C20: the baseline of the watcher is the list length read at mount; the
\* check runs no earlier than 2000 time units after mount and uses the list
\* length of that moment: earlier mutations are seen, later ones are not.
C20_BaselineAndDelayedRead ==
  /\ [](~hasUpdated => now = 0)
  /\ [][(~hasUpdated /\ hasUpdated')
          => (customUI' = JSNumber(ListLength(customUiList)) /\ now' = now)]_vars
  /\ [][hasUpdated => customUI' = customUI]_vars
  /\ [][CheckStep => (now >= 2000 /\ check'.len = ListLength(customUiList))]_vars
  /\ [][check.done => check'.len = check.len]_vars

C20_Witness ==
  /\ check.done
  /\ customUI.num = 0
  /\ check.len = 1
  /\ ListLength(customUiList) = 2
  /\ now >= 2000

\* a step in which a fetch settled or the loader moved on after its await
LoaderStep ==
  /\ hasUpdated
  /\ (osFetch' # osFetch \/ hassioFetch' # hassioFetch \/ loader' # loader)

\* C21: the watcher and the loader are independent.  The delayed check is
\* scheduled at mount with or without the supervisor capability, and once it
\* is due it can run whatever the state of the fetches and of the loader; it
\* leaves the supervisor records, the fetches and the loader as they are, and
\* no fetch completion cancels or re-schedules the timer.
C21_WatcherLoaderIndependent ==
  /\ [](hasUpdated => timer # "none" /\ timerDue = TimerDelay)
  /\ []((timer = "pending" /\ now >= timerDue /\ EventLoopIdle)
          => ENABLED timerCallback)
  /\ [][CheckStep
          => /\ osInfo' = osInfo
             /\ hassioInfo' = hassioInfo
             /\ osFetch' = osFetch
             /\ hassioFetch' = hassioFetch
             /\ loader' = loader
             /\ unhandledRejection' = unhandledRejection]_vars
  /\ [][LoaderStep => (timer' = timer /\ timerDue' = timerDue
                         /\ check' = check /\ customUI' = customUI)]_vars

C21_Witness ==
  /\ timer = "fired"
  /\ check.done
  /\ mountedHassio
  /\ osFetch.state = "fulfilled"
  /\ hassioFetch.state = "pending"
  /\ loader = "awaiting"
  /\ SupervisorInfoUnset

\* a step in which the loader committed the two supervisor records
CommitStep == SupervisorInfoUnset /\ (osInfo' # Unset \/ hassioInfo' # Unset)

\* C22: capability loaded at mount and both fetches resolved: the two
\* records are committed and a render that reads the committed records
\* follows; the commit itself asks for that render.
C22_CommitThenRender ==
  /\ (mountedHassio /\ osFetch.state = "fulfilled"
         /\ hassioFetch.state = "fulfilled")
       ~> (/\ loader = "done"
           /\ osInfo = osFetch.value
           /\ hassioInfo = hassioFetch.value
           /\ renderInputs.os = osInfo
           /\ renderInputs.sup = hassioInfo
           /\ ~updateRequested)
  /\ [][CommitStep => (updateRequested' /\ loader' = "done")]_vars
  /\ [][(RenderStep /\ loader = "done")
          => (renderInputs'.os = osInfo /\ renderInputs'.sup = hassioInfo)]_vars

C22_Witness ==
  /\ mountedHassio
  /\ loader = "done"
  /\ settleOrder = <<"os", "hassio">>
  /\ renderInputs.os = "osA"
  /\ renderInputs.sup = "supB"
  /\ renderInputs.repeat = "info"
  /\ timer = "pending"
  /\ ~updateRequested

\* C23: the first render is complete before the timer is scheduled and
\* before a fetch is issued, and a pending update can always be rendered:
\* no render waits for the timer or for a fetch, and it produces the whole
\* view while they are pending.
C23_RenderNeverBlocked ==
  /\ [](~view.shown
          => (timer = "none" /\ NoFetchIssued /\ loader = "idle" /\ ~hasUpdated))
  /\ [][(~view.shown /\ view'.shown)
          => (timer' = "none" /\ osFetchCalls' = 0 /\ hassioFetchCalls' = 0
              /\ ~hasUpdated')]_vars
  /\ [][(timer = "none" /\ timer' # "none") => (view.shown /\ ~updateRequested)]_vars
  /\ [](updateRequested => ENABLED render)
  /\ [][RenderStep
          => (view'.shown /\ view'.disclaimer /\ Len(view'.pages) = Len(PAGES))]_vars

C23_Witness ==
  /\ view.shown
  /\ ~updateRequested
  /\ mountedHassio
  /\ ~isComponentLoaded(renderInputs.hass, "hassio")
  /\ timer = "pending"
  /\ osFetch.state = "pending"
  /\ hassioFetch.state = "pending"
  /\ loader = "awaiting"

\* C24: a render shows the legacy-extension block exactly when the list is
\* non-empty as the render runs, and the block then has one row per entry,
\* in list order, with the name, url and version of that entry.
C24_ExtensionBlockMirrorsList ==
  [][RenderStep
       => /\ view'.customUiShown <=> ListLength(customUiList) > 0
          /\ ~view'.customUiShown => view'.customUi = <<>>
          /\ Len(view'.customUi) = ListLength(customUiList)
          /\ \A i \in 1..ListLength(customUiList) :
               view'.customUi[i] =
                 [href |-> customUiList.items[i].url,
                  name |-> customUiList.items[i].name,
                  version |-> customUiList.items[i].version]]_vars

C24_Witness ==
  /\ view.shown
  /\ ~updateRequested
  /\ view.customUiShown
  /\ Len(view.customUi) = 2
  /\ view.customUi[1].name = "card-b"
  /\ view.customUi[1].href = "https://b.example"
  /\ view.customUi[1].version = "2"
  /\ view.customUi[2].name = "card-a"
  /\ renderInputs.list = customUiList

\* c occurs in the text of the line
Substituted(c, line) == \E i \in 1..Len(line) : line[i] = c

\* C25: the rendered version/copyright line contains each of the three
\* build-time constants: UI build type, UI version and application version.
C25_AllThreeConstantsShown ==
  view.shown
    => /\ Substituted(JS_TYPE, view.version)
       /\ Substituted(JS_VERSION, view.version)
       /\ Substituted(SHC_VERSION, view.version)

\* C26: third-party code changes the list between the steps of the panel
\* and the panel takes no notice until its next read.  A render and the
\* delayed check that find the global absent treat it as the empty list and
\* complete; each uses the list as it is in the step that runs it.
C26_ToleratesConcurrentMutation ==
  /\ [][customUiList' # customUiList
          => /\ view' = view
             /\ updateRequested' = updateRequested
             /\ customUI' = customUI
             /\ check' = check
             /\ timer' = timer]_vars
  /\ [][RenderStep
          => /\ view'.shown
             /\ ViewListsCurrentEntries(view', customUiList)
             /\ customUiList.type = "undefined"
                  => (~view'.customUiShown /\ view'.customUi = <<>>)]_vars
  /\ [][CheckStep
          => /\ check'.done
             /\ timer' = "fired"
             /\ check'.len = ListLength(customUiList)
             /\ customUiList.type = "undefined" => check'.len = 0]_vars
  /\ [][(~hasUpdated /\ hasUpdated')
          => customUI' = JSNumber(ListLength(customUiList))]_vars

C26_Witness ==
  /\ check.done
  /\ customUI.num = 2
  /\ check.len = 0
  /\ check.rows = 0
  /\ customUiList.type = "undefined"
  /\ renderInputs.list = JSUndefined
  /\ view.shown
  /\ ~view.customUiShown
  /\ ~updateRequested

\* every value window.CUSTOM_UI_LIST can have when the check runs
CustomUiGlobals == {JSUndefined} \cup { JSArray(list) : list \in CustomUiLists }

\* C27: in the source as written the delayed check requests a re-render on
\* every mount: the ".length" of the captured number is undefined, which no
\* list length equals, whatever the list was at mount and is at the check,
\* an empty or absent list at both moments included.
C27_CheckAlwaysRequests ==
  /\ [](hasUpdated
          => /\ customUI.type = "number"
             /\ LengthProp(customUI) = JSUndefined
             /\ \A g \in CustomUiGlobals : WatcherCheck(g, customUI))
  /\ [](check.done => check.requested)
  /\ [][CheckStep => updateRequested']_vars

C27_Witness ==
  /\ check.done
  /\ check.requested
  /\ customUI = JSNumber(0)
  /\ check.len = 0
  /\ check.rows = 0
  /\ customUiList.type = "undefined"
  /\ renderInputs.repeat = "all"

\* C28: the supervisor capability is read once, at mount.  Not loaded at
\* mount and loaded later: no fetch is issued and the records stay unset,
\* also after the panel has rendered with the new host context.  Loaded at
\* mount and unloaded later: the fetches stay issued and, once both have
\* resolved, their values are committed.
C28_CapabilitySampledAtMount ==
  /\ []((hasUpdated /\ ~mountedHassio)
          => (NoFetchIssued /\ SupervisorInfoUnset /\ loader = "idle"
              /\ osFetch = NotIssued /\ hassioFetch = NotIssued))
  /\ []((hasUpdated /\ mountedHassio)
          => (osFetchCalls = 1 /\ hassioFetchCalls = 1 /\ loader # "idle"))
  /\ []((mountedHassio /\ EventLoopIdle
            /\ osFetch.state = "fulfilled" /\ hassioFetch.state = "fulfilled")
          => (loader = "done" /\ osInfo = osFetch.value
              /\ hassioInfo = hassioFetch.value))
  /\ [][hasUpdated => mountedHassio' = mountedHassio]_vars
  /\ [][(hasUpdated /\ hass' # hass)
          => (osFetch' = osFetch /\ hassioFetch' = hassioFetch
              /\ osFetchCalls' = osFetchCalls
              /\ hassioFetchCalls' = hassioFetchCalls /\ loader' = loader)]_vars

C28_Witness ==
  /\ mountedHassio
  /\ ~isComponentLoaded(hass, "hassio")
  /\ ~isComponentLoaded(renderInputs.hass, "hassio")
  /\ renderInputs.os = Unset
  /\ loader = "done"
  /\ osInfo = "osA"
  /\ hassioInfo = "supB"
  /\ updateRequested

\* the other case of C28: the capability appeared after mount and the panel
\* has rendered with it
C28_LateCapability ==
  /\ hasUpdated
  /\ ~mountedHassio
  /\ isComponentLoaded(renderInputs.hass, "hassio")
  /\ timer = "fired"
  /\ check.rows # -1
  /\ ~updateRequested
  /\ NoFetchIssued

\* the delayed check has run, both fetches have resolved and the event loop
\* has finished the work they caused
AllThreeDone ==
  /\ timer = "fired"
  /\ osFetch.state = "fulfilled"
  /\ hassioFetch.state = "fulfilled"
  /\ EventLoopIdle

\* C29: once the delayed check and both fetch completions have happened, in
\* whichever order, the panel has committed the two fetched values and shows
\* the view of a render that came after all three: the view of the list that
\* render read, whatever the order was.
C29_InterleavingIndependent ==
  AllThreeDone
    => /\ loader = "done"
       /\ osInfo = osFetch.value
       /\ hassioInfo = hassioFetch.value
       /\ osInfo \in OsInfoValues
       /\ hassioInfo \in HassioInfoValues
       /\ check.rows # -1
       /\ renderInputs.os = osInfo
       /\ renderInputs.sup = hassioInfo
       /\ view = RenderView(renderInputs.hass, osInfo, hassioInfo, renderInputs.list)
       /\ renderInputs.list = customUiList
            => ViewListsCurrentEntries(view, customUiList)

\* the check ran after both completions
C29_Witness ==
  /\ AllThreeDone
  /\ settleOrder = <<"hassio", "os">>
  /\ renderInputs.repeat = "all"
  /\ osInfo = "osA"
  /\ hassioInfo = "supB"
  /\ Len(view.customUi) = 1

\* the check ran before the completions
C29_CheckFirst ==
  /\ AllThreeDone
  /\ settleOrder = <<"os", "hassio">>
  /\ renderInputs.repeat = "info"
  /\ osInfo = "osA"
  /\ hassioInfo = "supB"
  /\ Len(view.customUi) = 1

====
